---- MODULE Spec2Model ----
(***************************************************************************)
(* Model of the scraping core of the auction intelligence system:          *)
(*   app/core/scraper_service.py          ScraperService (orchestrator)    *)
(*   app/core/scrapers/scraper_factory.py ScraperFactory (registry)        *)
(*   app/core/scrapers/ebay_scraper.py    EbayScraper (adapter)            *)
(*   app/core/scrapers/base_scraper.py    BaseScraper (shared helpers)     *)
(*   app/core/proxy_manager.py            ProxyManager                     *)
(*   app/core/user_agent_manager.py       UserAgentManager                 *)
(*                                                                         *)
(* Scope: the statements of the method bodies.  Creating an object is      *)
(* modelled by its __init__ body; module loading and class creation are    *)
(* not modelled.  Wall-clock time is an input: a read of time.time() is    *)
(* represented by the outcome of the comparison it feeds.                  *)
(***************************************************************************)
EXTENDS Integers, Sequences, FiniteSets, TLC

(***************************************************************************)
(* Python values.  A value is a record tagged by its type, so that values  *)
(* of different types can be compared.                                     *)
(***************************************************************************)
None == [t |-> "none"]

Str(s) == [t |-> "str", s |-> s]

\* The text of an element, as a sequence of characters.
Txt(cs) == [t |-> "text", chars |-> cs]

Num(n) == [t |-> "num", n |-> n]

\* bool(v): None, "" and 0 are falsy.
Truthy(v) ==
    CASE v.t = "none" -> FALSE
      [] v.t = "str"  -> v.s # ""
      [] v.t = "num"  -> v.n # 0
      [] v.t = "text" -> v.chars # <<>>
      [] OTHER        -> TRUE

\* dict.get(key): the value, or None when the key is absent.
DictGet(d, k) == IF k \in DOMAIN d THEN d[k] ELSE None

\* An exception in flight: its class and the parts of its message.
Raise(exc, msg) == [k |-> "raise", exc |-> exc, msg |-> msg]

\* An exception raised while handling the exception ctx: Python sets its
\* __context__ to ctx.
RaiseIn(exc, msg, ctx) == [k |-> "raise", exc |-> exc, msg |-> msg, context |-> ctx]

Return(v) == [k |-> "return", val |-> v]

(***************************************************************************)
(* str.lower() on the words a body may contain, and the block markers.     *)
(***************************************************************************)
Lower(w) ==
    CASE w = "CAPTCHA" -> "captcha"
      [] w = "Captcha" -> "captcha"
      [] w = "Robot"   -> "robot"
      [] w = "EBAY"    -> "ebay"
      [] w = "Ebay"    -> "ebay"
      [] OTHER         -> w

BlockMarkers == {"captcha", "robot"}

\* "captcha" in text.lower() or "robot" in text.lower()
ContainsMarker(body) == \E w \in body.words : Lower(w) \in BlockMarkers

(***************************************************************************)
(* Price text: re.sub(r'[^\d.]', '', bid_text) followed by float().        *)
(* A text is a sequence of characters; a float is kept in hundredths.      *)
(***************************************************************************)
Digits == {"0", "1", "2", "3", "4", "5", "6", "7", "8", "9"}

IsNumChar(c) == c \in Digits \cup {"."}

StripNonNumeric(text) == SelectSeq(text, IsNumChar)

DigitVal(c) ==
    CASE c = "0" -> 0 [] c = "1" -> 1 [] c = "2" -> 2 [] c = "3" -> 3
      [] c = "4" -> 4 [] c = "5" -> 5 [] c = "6" -> 6 [] c = "7" -> 7
      [] c = "8" -> 8 [] c = "9" -> 9

RECURSIVE IntOf(_)
IntOf(ds) ==
    IF ds = <<>> THEN 0
    ELSE 10 * IntOf(SubSeq(ds, 1, Len(ds) - 1)) + DigitVal(ds[Len(ds)])

IsDot(c) == c = "."

DotPos(s) == CHOOSE i \in 1..Len(s) : s[i] = "."

\* The fraction digits, read as hundredths (one or two digits are modelled).
Hundredths(fs) ==
    IF fs = <<>> THEN 0
    ELSE IF Len(fs) = 1 THEN 10 * DigitVal(fs[1])
    ELSE 10 * DigitVal(fs[1]) + DigitVal(fs[2])

\* float(s): ValueError on "", on "." alone and on more than one dot.
ParseFloat(s) ==
    LET dots == Len(SelectSeq(s, IsDot)) IN
    IF s = <<>> \/ dots > 1 \/ Len(s) = dots
    THEN Raise("ValueError", <<"could not convert string to float">>)
    ELSE IF dots = 0 THEN Return(Num(100 * IntOf(s)))
    ELSE LET p == DotPos(s) IN
         Return(Num(100 * IntOf(SubSeq(s, 1, p - 1))
                    + Hundredths(SubSeq(s, p + 1, Len(s)))))

(***************************************************************************)
(* The adapter's field extraction (EbayScraper).  A parsed page is a       *)
(* record of the elements the selectors look for; an element that is not   *)
(* on the page is None.                                                    *)
(***************************************************************************)
\* og:url meta with /itm/<digits>, else div.itm-num, else ValueError.
ExtractLotNumber(soup) ==
    IF soup.ogid # None THEN Return(soup.ogid)
    ELSE IF soup.itmnum # None THEN Return(soup.itmnum)
    ELSE Raise("ValueError", <<"Could not extract auction ID">>)

ExtractTitle(soup) ==
    IF soup.title # None THEN Return(soup.title)
    ELSE Raise("ValueError", <<"Could not extract title">>)

ExtractCurrentBid(soup) ==
    IF soup.prc # None THEN ParseFloat(StripNonNumeric(soup.prc.chars))
    ELSE Raise("ValueError", <<"Could not extract current bid">>)

\* Optional attribute blocks: the value, or None when the block is absent.
ExtractAttr(soup, name) == soup[name]

ExtractCondition(soup) ==
    IF soup.condition # None THEN Return(soup.condition)
    ELSE Raise("ValueError", <<"Could not extract condition">>)

\* The dict literal of scrape_by_url: the extractors run in this order and
\* the first one that raises ends the extraction.
ExtractData(soup, url) ==
    LET lot   == ExtractLotNumber(soup)
        title == ExtractTitle(soup)
        bid   == ExtractCurrentBid(soup)
        cond  == ExtractCondition(soup)
    IN  IF lot.k = "raise" THEN lot
        ELSE IF title.k = "raise" THEN title
        ELSE IF bid.k = "raise" THEN bid
        ELSE IF cond.k = "raise" THEN cond
        ELSE Return([auction_id   |-> lot.val,
                     title        |-> title.val,
                     current_bid  |-> bid.val,
                     brand        |-> ExtractAttr(soup, "brand"),
                     model        |-> ExtractAttr(soup, "model"),
                     upc          |-> ExtractAttr(soup, "upc"),
                     asin         |-> ExtractAttr(soup, "asin"),
                     condition    |-> cond.val,
                     damage_notes |-> ExtractAttr(soup, "damage"),
                     end_time     |-> ExtractAttr(soup, "end_time"),
                     seller       |-> ExtractAttr(soup, "seller"),
                     shipping     |-> ExtractAttr(soup, "shipping"),
                     returns      |-> ExtractAttr(soup, "returns"),
                     url          |-> url,
                     scraped_at   |-> Str("utcnow")])

(***************************************************************************)
(* BaseScraper helpers used by the adapter.                                *)
(***************************************************************************)
RequiredFields == <<"lot_number", "title", "current_bid">>

\* _validate_data: every required key must be present and truthy.
ValidateData(data) ==
    \A i \in 1..Len(RequiredFields) : Truthy(DictGet(data, RequiredFields[i]))

FormatOutputParams == <<"auction_id", "auction_name", "items">>

\* _format_output(self, auction_id, auction_name, items), called with the
\* positional arguments args.
FormatOutput(args) ==
    IF Len(args) # Len(FormatOutputParams)
    THEN Raise("TypeError", <<"missing required positional arguments">>)
    ELSE Return([auction_meta |-> [id |-> args[1], name |-> args[2],
                                   end_time |-> Str("utcnow")],
                 items |-> args[3]])

\* _handle_captcha(self, response): reads response.text; TRUE after rotating
\* the proxy when a marker is found.  rotated counts its rotate_proxy calls.
HandleCaptcha(response) ==
    IF "text" \notin DOMAIN response
    THEN Raise("AttributeError", <<"object has no attribute 'text'">>)
    ELSE IF ContainsMarker(response.text)
         THEN [k |-> "return", val |-> TRUE, rotated |-> TRUE]
         ELSE [k |-> "return", val |-> FALSE, rotated |-> FALSE]

(***************************************************************************)
(* EbayScraper.scrape_by_url after requests.get: one execution of the      *)
(* body, up to its return, its raise or its recursive call.                *)
(***************************************************************************)
\* The argument the adapter passes to _handle_captcha.
CaptchaFixedArg(response) == response

CaptchaArg(response) == response.text

\* The arguments the adapter passes to _format_output.
FormatArgs(data) == <<data>>

\* BeautifulSoup(response.text, "html.parser"): the elements of the body.
ParseHtml(body) == [n \in (DOMAIN body) \ {"words"} |-> body[n]]

TransportOk(response) == response.status = "ok"

\* A transport failure that is swallowed: the adapter returns None.
TransportFailureSwallowed(response) == Return(None)

\* requests.get or raise_for_status raising; the except clause re-raises.
TransportFailure(response) == Raise("RequestException", <<response.status>>)

\* The body without block check and validation, a field whose extraction
\* fails being left unset.
ScrapeBodyUnchecked(url, response) ==
    IF ~TransportOk(response)
    THEN TransportFailure(response)
    ELSE LET soup  == ParseHtml(response.text)
             lot   == ExtractLotNumber(soup)
             title == ExtractTitle(soup)
             bid   == ExtractCurrentBid(soup)
         IN  Return([auction_id  |-> IF lot.k = "raise" THEN None ELSE lot.val,
                     title       |-> IF title.k = "raise" THEN None ELSE title.val,
                     current_bid |-> IF bid.k = "raise" THEN None ELSE bid.val,
                     url         |-> url])

ScrapeBody(url, response) ==
    IF ~TransportOk(response)
    THEN TransportFailure(response)
    ELSE LET hc == HandleCaptcha(CaptchaArg(response)) IN
         IF hc.k = "raise" THEN hc
         ELSE IF hc.val THEN [k |-> "captcha"]
         ELSE LET d == ExtractData(ParseHtml(response.text), url) IN
              IF d.k = "raise" THEN d
              ELSE IF ~ValidateData(d.val)
                   THEN Raise("ValueError", <<"Required fields missing from scraped data">>)
                   ELSE FormatOutput(FormatArgs(d.val))

(***************************************************************************)
(* The environment: what the site serves.  A body is the str of a 2xx      *)
(* response; its words are the substrings the block check looks for.       *)
(***************************************************************************)
GoodBody(id) ==
    [words |-> {}, ogid |-> Str(id), itmnum |-> None,
     title |-> Str("Vintage Lamp"),
     prc |-> Txt(<<"$", "4", "2", ".", "5", "0">>),
     condition |-> Str("Used"), brand |-> None, model |-> None, upc |-> None,
     asin |-> None, damage |-> None, end_time |-> None, seller |-> None,
     shipping |-> None, returns |-> None, description |-> None]

EmptyBody ==
    [words |-> {}, ogid |-> None, itmnum |-> None, title |-> None, prc |-> None,
     condition |-> None, brand |-> None, model |-> None, upc |-> None,
     asin |-> None, damage |-> None, end_time |-> None, seller |-> None,
     shipping |-> None, returns |-> None, description |-> None]

Ok(body) == [status |-> "ok", text |-> body]

\* Timeout, refused connection, and a non-2xx status (raise_for_status).
TransportErrors == {[status |-> "timeout"], [status |-> "refused"],
                    [status |-> "http_error"]}

BlockedPages == {Ok([EmptyBody EXCEPT !.words = {"CAPTCHA"}]),
                 Ok([EmptyBody EXCEPT !.words = {"robot"}])}

GoodPages(id) == {Ok(GoodBody(id)),
                  Ok([GoodBody(id) EXCEPT !.ogid = None, !.itmnum = Str(id),
                                          !.brand = Str("Acme")])}

\* Pages on which a required field is missing, empty or zero.
InvalidPages(id) ==
    {Ok([GoodBody(id) EXCEPT !.prc = None]),
     Ok([GoodBody(id) EXCEPT !.prc = Txt(<<"N", "/", "A">>)]),
     Ok([GoodBody(id) EXCEPT !.prc = Txt(<<"$", "0", ".", "0", "0">>)]),
     Ok([GoodBody(id) EXCEPT !.title = None]),
     Ok([GoodBody(id) EXCEPT !.title = Str("")]),
     Ok([GoodBody(id) EXCEPT !.ogid = None])}

\* Pages with the three required fields on which the condition block, an
\* optional field, is absent.
SparsePages(id) == {Ok([GoodBody(id) EXCEPT !.condition = None])}

\* Description blocks (.lot-description), as sequences of words and white
\* space: labelled "Key: Value" lines and free text.
Descriptions ==
    {<<"Brand:", " ", "Acme">>,
     <<"Model:", " ", "X100", "\n", "Brand:", " ", "Acme", " ", "Corp", " ">>,
     <<"Brand:", "\n", "Model:", " ", "X100">>,
     <<"Brand:", " ">>,
     <<"UPC:", " ", "012345">>,
     <<"Vintage", " ", "lamp">>}

\* Valid pages that carry a description block and no attribute blocks.
DescribedPages(id) ==
    {Ok([GoodBody(id) EXCEPT !.description = Txt(d)]) : d \in Descriptions}

AllResponses(id) ==
    TransportErrors \cup BlockedPages \cup GoodPages(id) \cup InvalidPages(id)
        \cup SparsePages(id) \cup DescribedPages(id)

\* The targets, by what the site serves for each, every time it is fetched.
Targets == {"123", "124", "456", "500", "403", "789"}

Site(id) ==
    CASE id \in {"123", "124"} -> GoodPages(id)
      [] id = "456"            -> InvalidPages(id)
      [] id = "500"            -> TransportErrors
      [] id = "403"            -> BlockedPages
      [] OTHER                 -> AllResponses(id)

(***************************************************************************)
(* ProxyManager and UserAgentManager.  The state of a manager object is a  *)
(* record; rotation draws from the pool with random.choice, the draw being *)
(* the input `pick`.  `expired` is the outcome of                          *)
(*   current_time - self.last_rotation > self.rotation_interval.           *)
(***************************************************************************)
Proxy(u) == [http |-> u, https |-> u]

\* STATIC_PROXIES as configured, and the default Tor SOCKS proxy.
StaticProxies == {Proxy("proxyA"), Proxy("proxyB")}

TorProxies == {Proxy("socks5h://127.0.0.1:9050")}

UserAgents == {Str("uaX")}

NewProxyManager ==
    [static |-> StaticProxies, tor |-> TorProxies, current |-> None, ptype |-> None]

NewUserAgentManager == [agents |-> UserAgents, current |-> None]

\* A USER_AGENTS configuration of two strings.
TwoUserAgents == {Str("uaX"), Str("uaY")}

\* What random.choice may return in rotate_proxy.
ProxyPicks(p) ==
    IF p.static # {} THEN p.static ELSE IF p.tor # {} THEN p.tor ELSE {None}

\* A rotation that takes the Tor proxy whenever there is one.
RotateProxyTorFirst(p, pick) ==
    IF p.tor # {}
    THEN [p EXCEPT !.current = CHOOSE x \in p.tor : TRUE, !.ptype = Str("tor")]
    ELSE IF p.static # {} THEN [p EXCEPT !.current = pick, !.ptype = Str("static")]
    ELSE [p EXCEPT !.current = None, !.ptype = None]

RotateProxy(p, pick) ==
    IF p.static # {} THEN [p EXCEPT !.current = pick, !.ptype = Str("static")]
    ELSE IF p.tor # {} THEN [p EXCEPT !.current = pick, !.ptype = Str("tor")]
    ELSE [p EXCEPT !.current = None, !.ptype = None]

\* get_proxy: the manager after the call; the proxy returned is its current.
GetProxy(p, expired, pick) ==
    IF p.current = None \/ expired THEN RotateProxy(p, pick) ELSE p

UserAgentPicks(u) == IF u.agents # {} THEN u.agents ELSE {None}

RotateUserAgent(u, pick) ==
    IF u.agents # {} THEN [u EXCEPT !.current = pick]
    ELSE [u EXCEPT !.current = None]

GetUserAgent(u, expired, pick) ==
    IF u.current = None \/ expired THEN RotateUserAgent(u, pick) ELSE u

(***************************************************************************)
(* The managers with their clock: last_rotation and rotation_interval.     *)
(* Times are in seconds.                                                   *)
(***************************************************************************)
\* self.rotation_interval = 300
RotationInterval == 300

\* time.time() when the managers are constructed: long after time 0, the
\* initial last_rotation.
StartTime == 4 * RotationInterval

\* The clock advances by half an interval at a time, so that reads are made
\* before, at and after the end of an interval.
TimeStep == RotationInterval \div 2

\* A constructor whose Tor list is empty.
NewClockedProxyManagerNoTor(static) ==
    [static |-> static, tor |-> {}, current |-> None, ptype |-> None,
     last_rotation |-> 0]

\* ProxyManager.__init__ with the given STATIC_PROXIES.
NewClockedProxyManager(static) ==
    [static |-> static, tor |-> TorProxies, current |-> None, ptype |-> None,
     last_rotation |-> 0]

\* UserAgentManager.__init__ with the given user agents.
NewClockedUserAgentManager(uas) ==
    [agents |-> uas, current |-> None, last_rotation |-> 0]

\* A rotation that draws a proxy and leaves proxy_type as it was.
RotateProxyAtKeepingType(p, pick, t) ==
    [p EXCEPT !.current = RotateProxy(p, pick).current, !.last_rotation = t]

\* rotate_proxy at time t: last_rotation is written when a proxy was drawn.
RotateProxyAt(p, pick, t) ==
    IF p.static # {} \/ p.tor # {}
    THEN [RotateProxy(p, pick) EXCEPT !.last_rotation = t]
    ELSE RotateProxy(p, pick)

\* The interval counted as over from its last second on.
ExpiredInclusive(last, t) == t - last >= RotationInterval

\* current_time - self.last_rotation > self.rotation_interval
Expired(last, t) == t - last > RotationInterval

\* get_proxy at time t: the manager after the call; it returns its current.
GetProxyAt(p, t, pick) ==
    IF p.current = None \/ Expired(p.last_rotation, t)
    THEN RotateProxyAt(p, pick, t)
    ELSE p

RotateUserAgentAt(u, pick, t) ==
    IF u.agents # {}
    THEN [RotateUserAgent(u, pick) EXCEPT !.last_rotation = t]
    ELSE RotateUserAgent(u, pick)

GetUserAgentAt(u, t, pick) ==
    IF u.current = None \/ Expired(u.last_rotation, t)
    THEN RotateUserAgentAt(u, pick, t)
    ELSE u

(***************************************************************************)
(* Bounds of the model.                                                    *)
(***************************************************************************)
\* ScraperService objects constructed.
MaxServices == 2

\* Top-level scrape calls made.
MaxCalls == 1

\* Largest max_retries passed to a scrape.
MaxRetries == 2

\* Depth at which a nested scrape_by_url call raises RecursionError.
RecursionLimit == 2

\* Adapter objects the factory creates.
MaxInstances == 3

\* Advances of the clock.
MaxTicks == 3

\* Threads that share one ProxyManager.
MaxWorkers == 2

\* Calls each thread makes on it.
MaxOps == 2

(***************************************************************************)
(* ScraperFactory: class-level state shared by every ScraperService.       *)
(***************************************************************************)
\* Manager objects are named by numbers: 0 is the pair the factory creates
\* for itself, i >= 1 the pair ScraperService number i creates.
ManagerIds == 0..MaxServices

FactoryManager == 0

ScraperTypes == {"ebay", "EBAY", "amazon"}

\* The scraper_type values get_scraper is called with on the registry alone.
RegistryKeys == ScraperTypes \cup {"Ebay"}

\* The scraper_type values the scrape methods are called with.
CallTypes == {"ebay", "amazon"}

\* A lookup that finds an adapter class for every key.
GetScraperClassAny(stype) == Str("EbayScraper")

\* _get_scraper_class: scrapers.get(scraper_type.lower())
GetScraperClass(stype) ==
    IF Lower(stype) = "ebay" THEN Str("EbayScraper") ELSE None

\* get_scraper without the lookup of _instances: a new adapter every call.
GetScraperUncached(f, stype) ==
    LET f1 == [f EXCEPT !.pm  = IF f.pm = None THEN Num(FactoryManager) ELSE f.pm,
                        !.uam = IF f.uam = None THEN Num(FactoryManager) ELSE f.uam]
    IN  IF GetScraperClass(stype) # None
        THEN LET inst == [cls |-> GetScraperClass(stype).s, oid |-> f1.made + 1,
                          pm |-> f1.pm.n, uam |-> f1.uam.n]
             IN  [f |-> [f1 EXCEPT !.instances =
                                      [t \in (DOMAIN f1.instances) \cup {stype} |->
                                          IF t = stype THEN inst ELSE f1.instances[t]],
                                   !.made = f1.made + 1,
                                   !.returned = @ \cup {stype}],
                  res |-> Return(inst)]
        ELSE [f |-> f1, res |-> Raise("ValueError", <<"Invalid scraper type">>)]

\* get_scraper on factory state f: the state after the call and its result.
\* made counts the adapters constructed; returned holds the keys for which
\* the call has returned an adapter since the last clear_instances.
GetScraper(f, stype) ==
    LET f1 == [f EXCEPT !.pm  = IF f.pm = None THEN Num(FactoryManager) ELSE f.pm,
                        !.uam = IF f.uam = None THEN Num(FactoryManager) ELSE f.uam]
    IN  IF stype \in DOMAIN f1.instances
        THEN [f |-> [f1 EXCEPT !.returned = @ \cup {stype}],
              res |-> Return(f1.instances[stype])]
        ELSE IF GetScraperClass(stype) # None
             THEN LET inst == [cls |-> GetScraperClass(stype).s, oid |-> f1.made + 1,
                               pm |-> f1.pm.n, uam |-> f1.uam.n]
                  IN  [f |-> [f1 EXCEPT !.instances = f1.instances @@ (stype :> inst),
                                        !.made = f1.made + 1,
                                        !.returned = @ \cup {stype}],
                       res |-> Return(inst)]
             ELSE [f |-> f1, res |-> Raise("ValueError", <<"Invalid scraper type">>)]

(***************************************************************************)
(* State.                                                                  *)
(***************************************************************************)
VARIABLES
    svc,      \* the ScraperService objects: svc[i] = [pm, uam], its managers
    factory,  \* ScraperFactory: [instances, pm, uam, made, returned]
    pm,       \* state of each ProxyManager object
    uam,      \* state of each UserAgentManager object
    call,     \* the single-target scrape in progress or last made
    pc,       \* where that scrape is: idle, attempt, except, returned, raised
    attempt,  \* the loop variable of its retry loop
    depth,    \* nested scrape_by_url calls of the adapter call in progress
    resp,     \* the response to the last GET of the attempt
    outcome,  \* what the adapter call, then the scrape, returned or raised
    batch,    \* the batch scrape in progress or last made
    log,      \* the GETs, sleeps and rotations since the top-level call began
    calls,    \* top-level scrape calls made
    requested \* the URLs handed to requests.get since the top-level call began

scrapeVars == <<svc, factory, pm, uam, call, pc, attempt, depth, resp, outcome,
                batch, log, calls, requested>>

\* Manager objects watched on their own, with the clock they read.
VARIABLES
    now,      \* what time.time() returns
    pool,     \* a ProxyManager object, last_rotation included
    agents,   \* a UserAgentManager object, last_rotation included
    ret,      \* the last call whose result is watched and what it returned
    wk,       \* the workers (threads) calling the ProxyManager: wk[w]
    rotlog    \* what each completed rotate_proxy wrote

poolVars == <<now, pool, agents, ret, wk, rotlog>>

vars == <<scrapeVars, poolVars>>

NoCall == [op |-> "none"]

NoResp == [status |-> "none"]

NoOutcome == [k |-> "none"]

NoBatch == [status |-> "none"]

BaseUrl == "https://www.ebay.com"

\* f"{self.base_url}/itm/{auction_id}"
CanonicalUrl(id) == <<BaseUrl, "/itm/", id>>

\* The listing a URL names: the site serves by listing.
UrlId(url) == url[3]

\* No scrape made.
NoScrape ==
    /\ call = NoCall
    /\ pc = "idle"
    /\ attempt = 0
    /\ depth = 0
    /\ resp = NoResp
    /\ outcome = NoOutcome
    /\ batch = NoBatch
    /\ log = <<>>
    /\ calls = 0
    /\ requested = <<>>

NoRet == [op |-> "none"]

\* The watched managers as constructed, no call made on them.
NoPoolCall ==
    /\ now = StartTime
    /\ pool = NewClockedProxyManager(StaticProxies)
    /\ agents = NewClockedUserAgentManager(UserAgents)
    /\ ret = NoRet
    /\ wk = <<>>
    /\ rotlog = {}

\* No manager used yet and no scrape made.
NothingScraped ==
    /\ pm = [i \in ManagerIds |-> NewProxyManager]
    /\ uam = [i \in ManagerIds |-> NewUserAgentManager]
    /\ NoScrape
    /\ NoPoolCall

Init ==
    /\ svc = <<>>
    /\ factory = [instances |-> <<>>, pm |-> None, uam |-> None, made |-> 0, returned |-> {}]
    /\ NothingScraped

\* The state after the first ScraperService() of the process: its managers
\* are those installed in the factory.
InitOneService ==
    /\ svc = <<[pm |-> 1, uam |-> 1]>>
    /\ factory = [instances |-> <<>>, pm |-> Num(1), uam |-> Num(1), made |-> 0, returned |-> {}]
    /\ NothingScraped

Idle == pc \in {"idle", "returned", "raised"} /\ batch.status # "running"

(***************************************************************************)
(* ScraperService.__init__: new managers, installed in the factory.        *)
(***************************************************************************)
NewService ==
    /\ Idle
    /\ Len(svc) < MaxServices
    /\ LET i == Len(svc) + 1 IN
       /\ svc' = Append(svc, [pm |-> i, uam |-> i])
       /\ factory' = [factory EXCEPT !.pm = Num(i), !.uam = Num(i)]
    /\ UNCHANGED <<pm, uam, call, pc, attempt, depth, resp, outcome, batch,
                   log, calls, requested>>
    /\ UNCHANGED poolVars

\* ScraperFactory.get_scraper called on the class.
FactoryGetScraper(stype) ==
    /\ Idle
    /\ GetScraper(factory, stype).f.made <= MaxInstances
    /\ factory' = GetScraper(factory, stype).f
    /\ UNCHANGED <<svc, pm, uam, call, pc, attempt, depth, resp, outcome,
                   batch, log, calls, requested>>
    /\ UNCHANGED poolVars

\* ScraperFactory.clear_instances: cls._instances.clear()
ClearInstances ==
    /\ Idle
    /\ factory' = [factory EXCEPT !.instances = <<>>, !.returned = {}]
    /\ UNCHANGED <<svc, pm, uam, call, pc, attempt, depth, resp, outcome,
                   batch, log, calls, requested>>
    /\ UNCHANGED poolVars

(***************************************************************************)
(* ScraperService.scrape_auction / scrape_by_url.                          *)
(***************************************************************************)
\* An entry at which the loop goes on from where the last failed scrape
\* left it: one attempt budget shared by the items of a batch.
EnterScrapeKeepAttempt(f, s, op, target, stype, n) ==
    LET g == GetScraper(f, stype) IN
    /\ factory' = g.f
    /\ call' = [op |-> op, svc |-> s, target |-> target, stype |-> stype,
                max_retries |-> n,
                scraper |-> IF g.res.k = "return" THEN g.res.val ELSE None]
    /\ attempt' = IF pc = "raised" THEN attempt ELSE 0
    /\ depth' = 0
    /\ resp' = NoResp
    /\ IF g.res.k = "raise" THEN pc' = "raised" /\ outcome' = g.res
       ELSE IF n <= 0 THEN pc' = "returned" /\ outcome' = Return(None)
       ELSE pc' = "attempt" /\ outcome' = NoOutcome

\* Entry of scrape_auction (op = "scrape_auction", target an id) or of
\* scrape_by_url (target a URL), from factory state f: get_scraper, then the
\* retry loop is entered; range(max_retries) is empty for max_retries <= 0
\* and the method then falls off its end, returning None.
EnterScrape(f, s, op, target, stype, n) ==
    LET g == GetScraper(f, stype) IN
    /\ factory' = g.f
    /\ call' = [op |-> op, svc |-> s, target |-> target, stype |-> stype,
                max_retries |-> n,
                scraper |-> IF g.res.k = "return" THEN g.res.val ELSE None]
    /\ attempt' = 0
    /\ depth' = 0
    /\ resp' = NoResp
    /\ IF g.res.k = "raise" THEN pc' = "raised" /\ outcome' = g.res
       ELSE IF n <= 0 THEN pc' = "returned" /\ outcome' = Return(None)
       ELSE pc' = "attempt" /\ outcome' = NoOutcome

SingleOps == {"scrape_auction", "scrape_by_url"}

\* The target values of an operation: ids, or the URLs of the listings.
TargetsOf(op) ==
    IF op = "scrape_auction" THEN Targets ELSE {CanonicalUrl(id) : id \in Targets}

\* scrape_by_id building its URL on another path than /itm/.
RequestUrlOtherPath(c) ==
    IF c.op = "scrape_auction" THEN <<BaseUrl, "/item/", c.target>> ELSE c.target

\* The URL the adapter requests: scrape_by_id builds it, scrape_by_url is
\* handed it.
RequestUrl(c) ==
    IF c.op = "scrape_auction" THEN CanonicalUrl(c.target) ELSE c.target

Scrape(s, op, target, stype, n) ==
    /\ Idle
    /\ calls < MaxCalls
    /\ calls' = calls + 1
    /\ batch' = NoBatch
    /\ log' = <<"start">>
    /\ requested' = <<>>
    /\ EnterScrape(factory, s, op, target, stype, n)
    /\ UNCHANGED <<svc, pm, uam>>
    /\ UNCHANGED poolVars

\* One execution of the body of EbayScraper.scrape_by_url: get_proxy and
\* get_user_agent, one GET, and what follows it.  On a detected block the
\* body rotates (once in _handle_captcha, once more after it) and calls
\* itself; a call nested RecursionLimit deep raises RecursionError.
AdapterStep(c) ==
    /\ pc = "attempt"
    /\ LET a   == c.scraper
           url == RequestUrl(c)
       IN \E r \in Site(UrlId(url)), expP \in BOOLEAN, expU \in BOOLEAN :
          LET res == ScrapeBody(url, r)
              blocked == res.k = "captcha"
          IN \E pp \in ProxyPicks(pm[a.pm]), up \in UserAgentPicks(uam[a.uam]) :
             LET p1 == GetProxy(pm[a.pm], expP, pp)
                 u1 == GetUserAgent(uam[a.uam], expU, up)
             IN \E pp2 \in IF blocked THEN ProxyPicks(p1) ELSE {pp},
                   up2 \in IF blocked THEN UserAgentPicks(u1) ELSE {up} :
                /\ resp' = r
                /\ requested' = Append(requested, url)
                /\ pm' = [pm EXCEPT ![a.pm] =
                            IF blocked THEN RotateProxy(RotateProxy(p1, pp2), pp2)
                            ELSE p1]
                /\ uam' = [uam EXCEPT ![a.uam] =
                            IF blocked THEN RotateUserAgent(u1, up2) ELSE u1]
                /\ log' = IF blocked
                          THEN log \o <<"get", "adapter_rotate_proxy",
                                        "adapter_rotate_proxy",
                                        "adapter_rotate_user_agent">>
                          ELSE Append(log, "get")
                /\ IF blocked
                   THEN IF depth + 1 < RecursionLimit
                        THEN /\ pc' = "attempt"
                             /\ depth' = depth + 1
                             /\ outcome' = NoOutcome
                        ELSE /\ pc' = "except"
                             /\ depth' = 0
                             /\ outcome' = Raise("RecursionError", <<"maximum recursion depth exceeded">>)
                   ELSE /\ depth' = 0
                        /\ outcome' = res
                        /\ pc' = IF res.k = "return" THEN "returned" ELSE "except"
    /\ UNCHANGED <<svc, factory, call, attempt, batch, calls>>
    /\ UNCHANGED poolVars

AdapterCall == AdapterStep(call)

\* attempt < max_retries - 1: another attempt follows this failure.
RetryAllowedOffByOne(a, n) == a < n

RetryAllowed(a, n) == a < n - 1

\* What the handler does before the next attempt, in order: time.sleep,
\* proxy_manager.rotate_proxy, user_agent_manager.rotate_user_agent.
RetryEventsRotateFirst == <<"rotate_proxy", "rotate_user_agent", "sleep_retry_delay">>

RetryEvents == <<"sleep_retry_delay", "rotate_proxy", "rotate_user_agent">>

\* The message of the ValueError raised after the last attempt.
ExhaustedMsg(c) ==
    <<"Failed to scrape", IF c.op = "scrape_auction" THEN "auction" ELSE "URL",
      c.target, "after", c.max_retries, "attempts">>

\* What the except clause leaves as the call's outcome: nothing when the
\* loop goes on, the ValueError chained to the last failure when it ends.
HandleOutcome(c) ==
    IF RetryAllowed(attempt, c.max_retries)
    THEN NoOutcome
    ELSE RaiseIn("ValueError", ExhaustedMsg(c), outcome)

\* The except clause retrying a URL target without rotating the pools.
HandleEffectsUrlKeepsPools(c) ==
    /\ pc = "except"
    /\ IF RetryAllowed(attempt, c.max_retries)
       THEN \E pp \in ProxyPicks(pm[svc[c.svc].pm]),
               up \in UserAgentPicks(uam[svc[c.svc].uam]) :
            /\ log' = IF c.op = "scrape_by_url"
                      THEN Append(log, "sleep_retry_delay")
                      ELSE log \o RetryEvents
            /\ pm' = IF c.op = "scrape_by_url" THEN pm
                     ELSE [pm EXCEPT ![svc[c.svc].pm] = RotateProxy(@, pp)]
            /\ uam' = IF c.op = "scrape_by_url" THEN uam
                      ELSE [uam EXCEPT ![svc[c.svc].uam] = RotateUserAgent(@, up)]
            /\ attempt' = attempt + 1
            /\ pc' = "attempt"
            /\ resp' = NoResp
       ELSE /\ pc' = "raised"
            /\ UNCHANGED <<pm, uam, attempt, resp, log>>
    /\ UNCHANGED <<svc, factory, call, depth, batch, calls, requested>>
    /\ UNCHANGED poolVars

\* The except clause of the retry loop of a call c, but for the outcome:
\* sleep and both rotations while attempts remain, else the loop ends.
HandleEffects(c) ==
    /\ pc = "except"
    /\ IF RetryAllowed(attempt, c.max_retries)
       THEN \E pp \in ProxyPicks(pm[svc[c.svc].pm]),
               up \in UserAgentPicks(uam[svc[c.svc].uam]) :
            /\ log' = log \o RetryEvents
            /\ pm' = [pm EXCEPT ![svc[c.svc].pm] = RotateProxy(@, pp)]
            /\ uam' = [uam EXCEPT ![svc[c.svc].uam] = RotateUserAgent(@, up)]
            /\ attempt' = attempt + 1
            /\ pc' = "attempt"
            /\ resp' = NoResp
       ELSE /\ pc' = "raised"
            /\ UNCHANGED <<pm, uam, attempt, resp, log>>
    /\ UNCHANGED <<svc, factory, call, depth, batch, calls, requested>>
    /\ UNCHANGED poolVars

\* The except clause of the retry loop.
HandleFailure ==
    /\ HandleEffects(call)
    /\ outcome' = HandleOutcome(call)

(***************************************************************************)
(* ScraperService.scrape_auctions / scrape_by_urls.                        *)
(***************************************************************************)
BatchOps == {"scrape_auctions", "scrape_by_urls"}

\* The single-target method a batch method calls for each item.
ItemOp(bop) == IF bop = "scrape_auctions" THEN "scrape_auction" ELSE "scrape_by_url"

\* The target lists handed to the batch methods.
BatchIds == {<<>>, <<"789">>, <<"403", "500">>, <<"123", "456", "124">>}

BatchInputs(bop) ==
    IF bop = "scrape_auctions" THEN BatchIds
    ELSE {[i \in 1..Len(ids) |-> CanonicalUrl(ids[i])] : ids \in BatchIds}

\* A failure entry that does not name its target.
FailureEntryAnonymous(bop, target, e) ==
    [error |-> e.msg, scraped_at |-> Str("utcnow")]

\* The entry appended when scrape_auction / scrape_by_url raised e.
FailureEntry(bop, target, e) ==
    IF bop = "scrape_auctions"
    THEN [auction_id |-> target, error |-> e.msg, scraped_at |-> Str("utcnow")]
    ELSE [url |-> target, error |-> e.msg, scraped_at |-> Str("utcnow")]

\* Entry of a batch method: results = [], get_scraper, then the first item.
StartBatch(s, bop, targets, stype, n) ==
    /\ Idle
    /\ calls < MaxCalls
    /\ calls' = calls + 1
    /\ requested' = <<>>
    /\ LET g == GetScraper(factory, stype)
           b == [status |-> "running", op |-> bop, svc |-> s, targets |-> targets,
                 stype |-> stype, max_retries |-> n, idx |-> 1, results |-> <<>>]
       IN IF g.res.k = "raise" \/ targets = <<>>
          THEN /\ batch' = [b EXCEPT !.status = IF g.res.k = "raise" THEN "raised"
                                               ELSE "returned"]
               /\ factory' = g.f
               /\ call' = NoCall
               /\ pc' = "idle"
               /\ attempt' = 0
               /\ depth' = 0
               /\ resp' = NoResp
               /\ outcome' = IF g.res.k = "raise" THEN g.res ELSE NoOutcome
               /\ log' = <<"batch_start">>
          ELSE /\ batch' = b
               /\ log' = <<"batch_start", "start">>
               /\ EnterScrape(g.f, s, ItemOp(bop), targets[1], stype, n)
    /\ UNCHANGED <<svc, pm, uam>>
    /\ UNCHANGED poolVars

\* The rest of one iteration of the batch loop, once the item's scrape has
\* returned or raised, and the entry of the next iteration.
BatchCollect ==
    /\ batch.status = "running"
    /\ pc \in {"returned", "raised"}
    /\ LET entry == IF pc = "returned" THEN outcome.val
                    ELSE FailureEntry(batch.op, call.target, outcome)
           log1  == IF pc = "returned" THEN Append(log, "sleep_delay_between")
                    ELSE log
           res1  == Append(batch.results, entry)
       IN IF batch.idx < Len(batch.targets)
          THEN /\ batch' = [batch EXCEPT !.idx = batch.idx + 1, !.results = res1]
               /\ log' = Append(log1, "start")
               /\ EnterScrape(factory, batch.svc, ItemOp(batch.op),
                              batch.targets[batch.idx + 1], batch.stype,
                              batch.max_retries)
          ELSE /\ batch' = [batch EXCEPT !.status = "returned", !.results = res1]
               /\ log' = log1
               /\ call' = NoCall
               /\ pc' = "idle"
               /\ attempt' = 0
               /\ depth' = 0
               /\ resp' = NoResp
               /\ outcome' = NoOutcome
               /\ UNCHANGED factory
    /\ UNCHANGED <<svc, pm, uam, calls, requested>>
    /\ UNCHANGED poolVars

Next ==
    \/ NewService
    \/ \E stype \in ScraperTypes : FactoryGetScraper(stype)
    \/ \E s \in 1..Len(svc), op \in SingleOps, stype \in CallTypes,
          n \in 0..MaxRetries :
          \E target \in TargetsOf(op) : Scrape(s, op, target, stype, n)
    \/ \E s \in 1..Len(svc), bop \in BatchOps, stype \in CallTypes,
          n \in 0..MaxRetries :
          \E targets \in BatchInputs(bop) : StartBatch(s, bop, targets, stype, n)
    \/ AdapterCall
    \/ HandleFailure
    \/ BatchCollect

Spec == Init /\ [][Next]_vars

\* The single-target scrapes of a process that has one ScraperService.
NextRetry ==
    \/ \E s \in 1..Len(svc), op \in SingleOps, stype \in CallTypes,
          n \in 0..MaxRetries :
          \E target \in TargetsOf(op) : Scrape(s, op, target, stype, n)
    \/ AdapterCall
    \/ HandleFailure

SpecRetry == InitOneService /\ [][NextRetry]_vars

\* The batch scrapes of a process that has one ScraperService.
NextBatch ==
    \/ \E s \in 1..Len(svc), bop \in BatchOps, stype \in CallTypes,
          n \in 0..MaxRetries :
          \E targets \in BatchInputs(bop) : StartBatch(s, bop, targets, stype, n)
    \/ AdapterCall
    \/ HandleFailure
    \/ BatchCollect

SpecBatch == InitOneService /\ [][NextBatch]_vars

\* Single-target and batch scrapes of a process that has one ScraperService
\* and asks the registry for adapters.
NextScrape ==
    \/ \E stype \in ScraperTypes : FactoryGetScraper(stype)
    \/ \E s \in 1..Len(svc), op \in SingleOps, stype \in CallTypes,
          n \in 0..MaxRetries :
          \E target \in TargetsOf(op) : Scrape(s, op, target, stype, n)
    \/ \E s \in 1..Len(svc), bop \in BatchOps, stype \in CallTypes,
          n \in 0..MaxRetries :
          \E targets \in BatchInputs(bop) : StartBatch(s, bop, targets, stype, n)
    \/ AdapterCall
    \/ HandleFailure
    \/ BatchCollect

SpecScrape == InitOneService /\ [][NextScrape]_vars

\* One ScraperService in a process configured with two user agents.
InitTwoAgents ==
    /\ svc = <<[pm |-> 1, uam |-> 1]>>
    /\ factory = [instances |-> <<>>, pm |-> Num(1), uam |-> Num(1), made |-> 0, returned |-> {}]
    /\ pm = [i \in ManagerIds |-> NewProxyManager]
    /\ uam = [i \in ManagerIds |-> [NewUserAgentManager EXCEPT !.agents = TwoUserAgents]]
    /\ NoScrape
    /\ NoPoolCall

SpecTwoAgents == InitTwoAgents /\ [][NextRetry]_vars

(***************************************************************************)
(* The managers called one call at a time, the clock advancing in between. *)
(***************************************************************************)
\* The STATIC_PROXIES and user-agent configurations a process may start with.
StaticConfigs == {{}, {Proxy("proxyA")}, StaticProxies}

AgentConfigs == {{}, UserAgents, TwoUserAgents}

InitPool ==
    /\ svc = <<>>
    /\ factory = [instances |-> <<>>, pm |-> None, uam |-> None, made |-> 0, returned |-> {}]
    /\ pm = [i \in ManagerIds |-> NewProxyManager]
    /\ uam = [i \in ManagerIds |-> NewUserAgentManager]
    /\ NoScrape
    /\ now = StartTime
    /\ \E static \in StaticConfigs : pool = NewClockedProxyManager(static)
    /\ \E uas \in AgentConfigs : agents = NewClockedUserAgentManager(uas)
    /\ ret = NoRet
    /\ wk = <<>>
    /\ rotlog = {}

Tick ==
    /\ now + TimeStep <= StartTime + MaxTicks * TimeStep
    /\ now' = now + TimeStep
    /\ UNCHANGED <<pool, agents, ret, wk, rotlog>>
    /\ UNCHANGED scrapeVars

GetProxyCall ==
    /\ \E pick \in ProxyPicks(pool) : pool' = GetProxyAt(pool, now, pick)
    /\ ret' = [op |-> "get_proxy", val |-> pool'.current]
    /\ UNCHANGED <<now, agents, wk, rotlog>>
    /\ UNCHANGED scrapeVars

\* A rotate_proxy that also drops the user agent in use.
RotateProxyCallDroppingAgent ==
    /\ \E pick \in ProxyPicks(pool) : pool' = RotateProxyAt(pool, pick, now)
    /\ agents' = [agents EXCEPT !.current = None]
    /\ ret' = [op |-> "rotate_proxy", val |-> None]
    /\ UNCHANGED <<now, wk, rotlog>>
    /\ UNCHANGED scrapeVars

RotateProxyCall ==
    /\ \E pick \in ProxyPicks(pool) : pool' = RotateProxyAt(pool, pick, now)
    /\ ret' = [op |-> "rotate_proxy", val |-> None]
    /\ UNCHANGED <<now, agents, wk, rotlog>>
    /\ UNCHANGED scrapeVars

\* get_proxy_type: return self.proxy_type
GetProxyTypeCall ==
    /\ ret' = [op |-> "get_proxy_type", val |-> pool.ptype]
    /\ UNCHANGED <<now, pool, agents, wk, rotlog>>
    /\ UNCHANGED scrapeVars

GetUserAgentCall ==
    /\ \E pick \in UserAgentPicks(agents) : agents' = GetUserAgentAt(agents, now, pick)
    /\ ret' = [op |-> "get_user_agent", val |-> agents'.current]
    /\ UNCHANGED <<now, pool, wk, rotlog>>
    /\ UNCHANGED scrapeVars

RotateUserAgentCall ==
    /\ \E pick \in UserAgentPicks(agents) : agents' = RotateUserAgentAt(agents, pick, now)
    /\ ret' = [op |-> "rotate_user_agent", val |-> None]
    /\ UNCHANGED <<now, pool, wk, rotlog>>
    /\ UNCHANGED scrapeVars

NextPool ==
    \/ Tick
    \/ GetProxyCall
    \/ RotateProxyCall
    \/ GetProxyTypeCall
    \/ GetUserAgentCall
    \/ RotateUserAgentCall

SpecPool == InitPool /\ [][NextPool]_vars

(***************************************************************************)
(* One ProxyManager shared by threads.  A thread runs get_proxy,           *)
(* rotate_proxy or get_proxy_type one statement at a time (named by its    *)
(* line number); the statements of different threads interleave.           *)
(***************************************************************************)
Workers == 1..MaxWorkers

WorkerOps == {"get_proxy", "rotate_proxy", "get_proxy_type"}

\* The first statement of each method.
FirstLine(op) ==
    CASE op = "get_proxy"      -> "l63"
      [] op = "rotate_proxy"   -> "l75"
      [] op = "get_proxy_type" -> "l121"

IdleWorker ==
    [pc |-> "idle", op |-> "none", t |-> 0, pick |-> None, ops |-> 0,
     ret |-> NoRet]

InitWorkers ==
    /\ svc = <<>>
    /\ factory = [instances |-> <<>>, pm |-> None, uam |-> None, made |-> 0, returned |-> {}]
    /\ pm = [i \in ManagerIds |-> NewProxyManager]
    /\ uam = [i \in ManagerIds |-> NewUserAgentManager]
    /\ NoScrape
    /\ now = StartTime
    /\ \E static \in {{}, StaticProxies} : pool = NewClockedProxyManager(static)
    /\ agents = NewClockedUserAgentManager(UserAgents)
    /\ ret = NoRet
    /\ wk = [w \in Workers |-> IdleWorker]
    /\ rotlog = {}

\* A thread calls a method.
WorkerCall(w, op) ==
    /\ wk[w].pc = "idle"
    /\ wk[w].ops < MaxOps
    /\ wk' = [wk EXCEPT ![w].pc = FirstLine(op), ![w].op = op,
                         ![w].ops = @ + 1]
    /\ UNCHANGED <<now, pool, agents, ret, rotlog>>
    /\ UNCHANGED scrapeVars

\* The thread after its rotate_proxy returned: at line 70 of get_proxy, or
\* back in its caller.
AfterRotate(w) ==
    IF wk[w].op = "get_proxy"
    THEN [wk EXCEPT ![w].pc = "l70", ![w].pick = None]
    ELSE [wk EXCEPT ![w].pc = "idle", ![w].pick = None,
                    ![w].ret = [op |-> "rotate_proxy", val |-> None]]

\* The record of a rotation that ran to its end.
Rotation(w, ptype) ==
    [by |-> w, n |-> wk[w].ops, op |-> wk[w].op, current |-> wk[w].pick,
     ptype |-> ptype, at |-> now]

\* get_proxy, lines 63-70.
GetProxyLine(w) ==
    /\ \/ /\ wk[w].pc = "l63"
          /\ wk' = [wk EXCEPT ![w].t = now, ![w].pc = "l66"]
          /\ UNCHANGED pool
       \/ /\ wk[w].pc = "l66"
          /\ wk' = [wk EXCEPT ![w].pc =
                       IF pool.current = None
                          \/ Expired(pool.last_rotation, wk[w].t)
                       THEN "l75" ELSE "l70"]
          /\ UNCHANGED pool
       \/ /\ wk[w].pc = "l70"
          /\ wk' = [wk EXCEPT ![w].pc = "idle", ![w].t = 0,
                              ![w].ret = [op |-> "get_proxy", val |-> pool.current,
                                          at |-> wk[w].t]]
          /\ UNCHANGED pool
    /\ UNCHANGED <<now, agents, ret, rotlog>>
    /\ UNCHANGED scrapeVars

\* rotate_proxy, lines 75-93.
RotateProxyLine(w) ==
    /\ \/ /\ wk[w].pc = "l75"
          /\ IF pool.static # {}
             THEN \E pick \in pool.static :
                     /\ pool' = [pool EXCEPT !.current = pick]
                     /\ wk' = [wk EXCEPT ![w].pick = pick, ![w].pc = "l77"]
             ELSE IF pool.tor # {}
                  THEN \E pick \in pool.tor :
                          /\ pool' = [pool EXCEPT !.current = pick]
                          /\ wk' = [wk EXCEPT ![w].pick = pick, ![w].pc = "l85"]
                  ELSE /\ pool' = [pool EXCEPT !.current = None]
                       /\ wk' = [wk EXCEPT ![w].pick = None, ![w].pc = "l92"]
          /\ UNCHANGED rotlog
       \/ /\ wk[w].pc = "l77"
          /\ pool' = [pool EXCEPT !.ptype = Str("static")]
          /\ wk' = [wk EXCEPT ![w].pc = "l79"]
          /\ UNCHANGED rotlog
       \/ /\ wk[w].pc = "l79"
          /\ pool' = [pool EXCEPT !.last_rotation = now]
          /\ rotlog' = rotlog \cup {Rotation(w, Str("static"))}
          /\ wk' = AfterRotate(w)
       \/ /\ wk[w].pc = "l85"
          /\ pool' = [pool EXCEPT !.ptype = Str("tor")]
          /\ wk' = [wk EXCEPT ![w].pc = "l87"]
          /\ UNCHANGED rotlog
       \/ /\ wk[w].pc = "l87"
          /\ pool' = [pool EXCEPT !.last_rotation = now]
          /\ rotlog' = rotlog \cup {Rotation(w, Str("tor"))}
          /\ wk' = AfterRotate(w)
       \/ /\ wk[w].pc = "l92"
          /\ pool' = [pool EXCEPT !.ptype = None]
          /\ wk' = AfterRotate(w)
          /\ UNCHANGED rotlog
    /\ UNCHANGED <<now, agents, ret>>
    /\ UNCHANGED scrapeVars

\* get_proxy_type, line 121.
GetProxyTypeLine(w) ==
    /\ wk[w].pc = "l121"
    /\ wk' = [wk EXCEPT ![w].pc = "idle",
                        ![w].ret = [op |-> "get_proxy_type", val |-> pool.ptype]]
    /\ UNCHANGED <<now, pool, agents, ret, rotlog>>
    /\ UNCHANGED scrapeVars

NextWorkers ==
    \/ Tick
    \/ \E w \in Workers, op \in WorkerOps : WorkerCall(w, op)
    \/ \E w \in Workers : GetProxyLine(w)
    \/ \E w \in Workers : RotateProxyLine(w)
    \/ \E w \in Workers : GetProxyTypeLine(w)

SpecWorkers == InitWorkers /\ [][NextWorkers]_vars

\* The registry alone: services constructed, adapters asked for, the
\* registry cleared.
\* get_all_scrapers returning the registry's own dict.
GetAllScrapersAliased(f) == [alias |-> TRUE, map |-> f.instances]

\* get_all_scrapers: cls._instances.copy(), a dict of its own with the same
\* keys and the same adapter objects.
GetAllScrapers(f) == [alias |-> FALSE, map |-> f.instances]

GetAllScrapersCall ==
    /\ Idle
    /\ ret' = [op |-> "get_all_scrapers", val |-> GetAllScrapers(factory)]
    /\ UNCHANGED scrapeVars
    /\ UNCHANGED <<now, pool, agents, wk, rotlog>>

\* The mapping m without the keys gone.
Without(m, gone) == [t \in (DOMAIN m) \ gone |-> m[t]]

\* The caller changes the mapping it was handed: del d[key], or d.clear().
\* A change of the registry's own dict is a change of the registry.
ChangeMapping ==
    /\ Idle
    /\ ret.op = "get_all_scrapers"
    /\ DOMAIN ret.val.map # {}
    /\ \E gone \in {{k} : k \in DOMAIN ret.val.map} \cup {DOMAIN ret.val.map} :
          /\ ret' = [ret EXCEPT !.val.map = Without(@, gone)]
          /\ factory' = IF ret.val.alias
                        THEN [factory EXCEPT !.instances = Without(@, gone)]
                        ELSE factory
    /\ UNCHANGED <<svc, pm, uam, call, pc, attempt, depth, resp, outcome, batch,
                   log, calls, requested>>
    /\ UNCHANGED <<now, pool, agents, wk, rotlog>>

NextFactory ==
    \/ NewService
    \/ \E stype \in RegistryKeys : FactoryGetScraper(stype)
    \/ ClearInstances
    \/ GetAllScrapersCall
    \/ ChangeMapping

SpecFactory == Init /\ [][NextFactory]_vars

(***************************************************************************)
(* Reading the state.                                                      *)
(***************************************************************************)
\* A scrape whose get_scraper returned an adapter.
InCall == call.op # "none" /\ call.scraper # None

\* The listing the scrape in progress is about.
TargetId == UrlId(RequestUrl(call))

Positions(seq, e) == {i \in 1..Len(seq) : seq[i] = e}

Count(seq, e) == Cardinality(Positions(seq, e))

LastOf(seq, es) ==
    LET at == {i \in 1..Len(seq) : seq[i] \in es} IN
    IF at = {} THEN 0 ELSE CHOOSE i \in at : \A j \in at : j <= i

\* The events of the scrape in progress: those after its "start".
ItemLog == SubSeq(log, LastOf(log, {"start"}) + 1, Len(log))

\* The events of the adapter call in progress or just ended: those after the
\* orchestrator's last event.
AttemptLog == SubSeq(log, LastOf(log, {"start", "rotate_user_agent"}) + 1, Len(log))

\* HTTP GETs made for the target of the scrape in progress.
Gets == Count(ItemLog, "get")

\* The scrape ended by raising the retries-exhausted error.
Exhausted ==
    /\ pc = "raised"
    /\ outcome.k = "raise"
    /\ outcome.exc = "ValueError"
    /\ outcome.msg = ExhaustedMsg(call)

\* Steps left to a scrape: a bound on the actions it can still take.
StepsLeft ==
    IF pc = "attempt" THEN 2 * (call.max_retries - attempt)
    ELSE IF pc = "except" THEN 2 * (call.max_retries - attempt) - 1
    ELSE 0

IsBlockPage(r) == r.status = "ok" /\ ContainsMarker(r.text)

\* The adapter call for resp has ended (the scrape may have ended with it).
AdapterEnded == resp # NoResp /\ pc \in {"except", "returned", "raised"}

(***************************************************************************)
(* C1.  For max_retries = N >= 1 and a target every fetch of which fails   *)
(* at transport level, a scrape makes exactly N fetch attempts and ends by *)
(* raising the retries-exhausted error: never more than N attempts, never  *)
(* a return, and every step of the scrape lowers StepsLeft, which is never *)
(* negative, so the scrape cannot go on forever.                           *)
(***************************************************************************)
PermanentlyFailing == InCall /\ call.max_retries >= 1 /\ Site(TargetId) \subseteq TransportErrors

C1_State ==
    PermanentlyFailing =>
        /\ Gets <= call.max_retries
        /\ StepsLeft >= 0
        /\ pc \in {"attempt", "except", "raised"}
        /\ pc = "attempt" => Gets = attempt
        /\ pc = "except" => Gets = attempt + 1
        /\ pc = "raised" => Exhausted /\ Gets = call.max_retries

C1_Step ==
    (PermanentlyFailing /\ pc \in {"attempt", "except"} /\ call' = call)
        => StepsLeft' < StepsLeft

C1_RetryExhaustionBound == [](C1_State) /\ [][C1_Step]_vars

C1_Witness ==
    /\ PermanentlyFailing
    /\ call.max_retries = MaxRetries
    /\ Exhausted
    /\ Gets = MaxRetries

(***************************************************************************)
(* C2.  The managers a ScraperService rotates on retry are the managers    *)
(* the adapter it scrapes with reads its proxy and user agent from.        *)
(***************************************************************************)
C2_SameManagers ==
    InCall => /\ call.scraper.pm = svc[call.svc].pm
              /\ call.scraper.uam = svc[call.svc].uam

(***************************************************************************)
(* C3.  For a target every response of which is a block page, a scrape     *)
(* with max_retries = N >= 1 makes at most N GETs in total and ends by     *)
(* raising the retries-exhausted error.                                    *)
(***************************************************************************)
AlwaysBlocked == InCall /\ call.max_retries >= 1 /\ Site(TargetId) \subseteq BlockedPages

C4_BlockRotatesBoth ==
    (InCall /\ AdapterEnded /\ IsBlockPage(resp)) =>
        /\ pc \in {"except", "raised"}
        /\ Count(AttemptLog, "get") = 1
        /\ Count(AttemptLog, "adapter_rotate_proxy") >= 1
        /\ Count(AttemptLog, "adapter_rotate_user_agent") >= 1

(***************************************************************************)
(* C5.  A batch returns one entry per input target, in input order: entry  *)
(* i is what scraping target i gave, and a failure entry carries target i. *)
(***************************************************************************)
\* Entry e is an outcome of scraping target t in batch b.
EntryOf(b, e, t) ==
    IF e = None THEN b.max_retries <= 0
    ELSE IF "error" \in DOMAIN e
         THEN IF b.op = "scrape_auctions"
              THEN "auction_id" \in DOMAIN e /\ e.auction_id = t
              ELSE "url" \in DOMAIN e /\ e.url = t
         ELSE /\ "url" \in DOMAIN e
              /\ e.url = (IF b.op = "scrape_auctions" THEN CanonicalUrl(t) ELSE t)

C5_OneOutcomePerTarget ==
    /\ batch.status = "running" =>
          /\ Len(batch.results) = batch.idx - 1
          /\ \A i \in 1..Len(batch.results) :
                EntryOf(batch, batch.results[i], batch.targets[i])
    /\ batch.status = "returned" =>
          /\ Len(batch.results) = Len(batch.targets)
          /\ \A i \in 1..Len(batch.targets) :
                EntryOf(batch, batch.results[i], batch.targets[i])

C5_Witness ==
    /\ batch.status = "returned"
    /\ Len(batch.targets) = 3
    /\ batch.max_retries >= 1
    /\ \A i \in 1..3 : "error" \in DOMAIN batch.results[i]

(***************************************************************************)
(* C6.  A batch over three targets of which the second always fails        *)
(* validation and the others always serve a valid page returns             *)
(* [Success, Failure, Success].                                            *)
(***************************************************************************)
IsFailureEntry(e) == e # None /\ "error" \in DOMAIN e

IsSuccessEntry(e) == e # None /\ "error" \notin DOMAIN e

BatchIdOf(b, i) == IF b.op = "scrape_auctions" THEN b.targets[i] ELSE UrlId(b.targets[i])

C6_BatchIsolation ==
    (/\ batch.status = "returned"
     /\ batch.max_retries >= 1
     /\ Len(batch.targets) = 3
     /\ Site(BatchIdOf(batch, 1)) \subseteq GoodPages(BatchIdOf(batch, 1))
     /\ Site(BatchIdOf(batch, 2)) \subseteq InvalidPages(BatchIdOf(batch, 2))
     /\ Site(BatchIdOf(batch, 3)) \subseteq GoodPages(BatchIdOf(batch, 3)))
    => /\ Len(batch.results) = 3
       /\ IsSuccessEntry(batch.results[1])
       /\ IsFailureEntry(batch.results[2])
       /\ IsSuccessEntry(batch.results[3])

(***************************************************************************)
(* C7.  When attempt k+1 of a scrape is served a valid page, the scrape    *)
(* returns that page's record after exactly k+1 fetch attempts.            *)
(***************************************************************************)
C7_SuccessReturnsAtOnce ==
    (InCall /\ AdapterEnded /\ resp \in GoodPages(TargetId)) =>
        /\ pc = "returned"
        /\ Gets = attempt + 1

(***************************************************************************)
(* C8.  Between two consecutive fetch attempts of one target the           *)
(* orchestrator sleeps retry_delay, then rotates the proxy, then the user  *)
(* agent, once each, whatever the failure was; it neither sleeps nor       *)
(* rotates after the final failed attempt.                                 *)
(***************************************************************************)
C8_RetrySequence ==
    /\ \A i \in 1..Len(log) :
          /\ log[i] = "sleep_retry_delay" =>
                /\ i > 1 /\ log[i - 1] \in {"get", "adapter_rotate_user_agent"}
                /\ i + 2 <= Len(log)
                /\ log[i + 1] = "rotate_proxy"
                /\ log[i + 2] = "rotate_user_agent"
                /\ IF i + 3 <= Len(log) THEN log[i + 3] = "get" ELSE pc = "attempt"
          /\ log[i] = "rotate_proxy" => i > 1 /\ log[i - 1] = "sleep_retry_delay"
          /\ log[i] = "rotate_user_agent" => i > 1 /\ log[i - 1] = "rotate_proxy"
          /\ (log[i] = "get" /\ i > 1 /\ log[i - 1] # "start") =>
                /\ i > 3
                /\ SubSeq(log, i - 3, i - 1) =
                      <<"sleep_retry_delay", "rotate_proxy", "rotate_user_agent">>
    /\ (InCall /\ pc = "raised") => log[Len(log)] = "get"

C8_Witness ==
    /\ InCall /\ pc = "raised"
    /\ ItemLog = <<"get", "sleep_retry_delay", "rotate_proxy",
                   "rotate_user_agent", "get">>
    /\ resp \in InvalidPages(TargetId)

(***************************************************************************)
(* C9.  A record the adapter returns has a non-empty auction id, title and *)
(* current bid; a page without a current bid ends in a failure.            *)
(***************************************************************************)
HasRequired(rec) ==
    /\ Truthy(DictGet(rec, "auction_id"))
    /\ Truthy(DictGet(rec, "title"))
    /\ Truthy(DictGet(rec, "current_bid"))

NoBidPage(r) == r.status = "ok" /\ r.text.prc = None

C9_ValidOrFailure ==
    /\ (InCall /\ pc = "returned" /\ outcome.val # None) => HasRequired(outcome.val)
    /\ (InCall /\ AdapterEnded /\ NoBidPage(resp)) => pc \in {"except", "raised"}

C9_Witness ==
    /\ InCall /\ pc = "except"
    /\ NoBidPage(resp) /\ ~IsBlockPage(resp)
    /\ outcome.k = "raise"

(***************************************************************************)
(* C10.  For a 2xx page without block marker on which auction id, title    *)
(* and current bid are all found, the adapter returns a record carrying    *)
(* them, with the requested URL.                                           *)
(***************************************************************************)
C10_GoodPageSucceeds ==
    (InCall /\ AdapterEnded /\ resp \in GoodPages(TargetId)) =>
        /\ pc = "returned"
        /\ outcome.k = "return"
        /\ DictGet(outcome.val, "auction_id") = Str(TargetId)
        /\ DictGet(outcome.val, "title") = resp.text.title
        /\ DictGet(outcome.val, "current_bid") = Num(4250)
        /\ "url" \in DOMAIN outcome.val /\ outcome.val.url = RequestUrl(call)

(***************************************************************************)
(* C11.  A scrape with max_retries >= 1 through a known adapter ends       *)
(* either by returning a record or by raising the retries-exhausted error, *)
(* and that error carries the kind of the last failed attempt: network for *)
(* a transport error, blocked for a block page, validation for a page with *)
(* a missing required field.                                               *)
(***************************************************************************)
\* The kind of failure an exception of the adapter stands for.
ErrorKind(e) ==
    CASE e.exc = "RequestException" -> "network"
      [] e.exc = "RecursionError"   -> "blocked"
      [] e.exc = "ValueError"       -> "validation"
      [] OTHER                      -> "other"

\* The kind of failure a response calls for; none for a valid page.
ResponseKind(r) ==
    IF r.status # "ok" THEN "network"
    ELSE IF IsBlockPage(r) THEN "blocked"
    ELSE IF r \in GoodPages(TargetId) THEN "none"
    ELSE "validation"

\* What the caller can read of the last failure: the exception the
\* retries-exhausted error was raised from.
CarriedKind(e) == IF "context" \in DOMAIN e THEN ErrorKind(e.context) ELSE "none"

C11_ExhaustedCarriesLastKind ==
    (InCall /\ call.max_retries >= 1 /\ pc \in {"returned", "raised"}) =>
        \/ pc = "returned" /\ outcome.val # None
        \/ Exhausted /\ CarriedKind(outcome) = ResponseKind(resp)

(***************************************************************************)
(* C12.  While the registry is not cleared, get_scraper returns for a      *)
(* scraper_type the adapter instance it returned for it before: a call     *)
(* returns the instance it leaves registered, a registered instance is     *)
(* what the next call with its key returns, and no step other than         *)
(* clear_instances replaces or removes a registered instance.              *)
(***************************************************************************)
C12_NextCallReturnsRegistered ==
    \A t \in RegistryKeys :
        LET g == GetScraper(factory, t) IN
        /\ g.res.k = "return" =>
              t \in DOMAIN g.f.instances /\ g.f.instances[t] = g.res.val
        /\ t \in DOMAIN factory.instances =>
              g.res = Return(factory.instances[t])

C12_RegisteredKept ==
    \A t \in DOMAIN factory.instances :
        \/ factory'.instances = <<>>
        \/ t \in DOMAIN factory'.instances
              /\ factory'.instances[t] = factory.instances[t]

C12_SingletonPerKey == [](C12_NextCallReturnsRegistered) /\ [][C12_RegisteredKept]_vars

\* An adapter registered before the managers of the registry were replaced:
\* a new instance would differ from it.
C12_Witness ==
    /\ "ebay" \in DOMAIN factory.instances
    /\ factory.instances["ebay"].pm # factory.pm.n
    /\ factory.made >= 2

(***************************************************************************)
(* C13.  An adapter call that is served a block page, with more than one   *)
(* proxy and more than one user agent configured, leaves both the current  *)
(* proxy and the current user agent of the adapter's pools different from  *)
(* what they were before the call.                                         *)
(***************************************************************************)
C13_Step ==
    (/\ pc = "attempt"
     /\ IsBlockPage(resp')
     /\ Cardinality(ProxyPicks(pm[call.scraper.pm])) > 1
     /\ Cardinality(UserAgentPicks(uam[call.scraper.uam])) > 1)
    => /\ pm'[call.scraper.pm].current # pm[call.scraper.pm].current
       /\ uam'[call.scraper.uam].current # uam[call.scraper.uam].current

C13_BlockChangesBoth == [][C13_Step]_vars

(***************************************************************************)
(* C14.  An adapter call whose GET fails at transport level (timeout,      *)
(* refused connection, non-2xx status) ends by raising the request         *)
(* exception: it returns no record, raises no error of the block check, of *)
(* extraction or of validation, and makes none of the block rotations.     *)
(***************************************************************************)
C14_TransportErrorIsNetworkFailure ==
    (InCall /\ AdapterEnded /\ resp \in TransportErrors) =>
        /\ pc \in {"except", "raised"}
        /\ pc = "except" =>
              outcome = Raise("RequestException", <<resp.status>>)
        /\ pc = "raised" =>
              outcome.context = Raise("RequestException", <<resp.status>>)
        /\ AttemptLog = <<"get">>

C14_Witness ==
    /\ InCall /\ pc = "except"
    /\ resp \in TransportErrors
    /\ resp.status = "http_error"
    /\ outcome.exc = "RequestException"

(***************************************************************************)
(* C15.  A single-target or batch scrape called with a scraper_type that   *)
(* names no adapter raises the invalid-type ValueError before any GET,     *)
(* sleep or rotation, and leaves the registry's instance map as it was.    *)
(***************************************************************************)
\* The scraper types that name an adapter, whatever their case.
UnknownType(t) == Lower(t) # "ebay"

\* The scraper_type of the top-level call a step starts.
StartedType == IF batch'.status = "none" THEN call'.stype ELSE batch'.stype

InvalidTypeError == Raise("ValueError", <<"Invalid scraper type">>)

C15_State ==
    /\ (batch.status = "none" /\ call.op # "none" /\ UnknownType(call.stype)) =>
          /\ pc = "raised"
          /\ outcome = InvalidTypeError
          /\ log = <<"start">>
    /\ (batch.status # "none" /\ UnknownType(batch.stype)) =>
          /\ batch.status = "raised"
          /\ batch.results = <<>>
          /\ outcome = InvalidTypeError
          /\ log = <<"batch_start">>

C15_Step ==
    (calls' = calls + 1 /\ UnknownType(StartedType)) =>
        /\ factory'.instances = factory.instances
        /\ pm' = pm /\ uam' = uam

C15_UnknownTypeFailsFast == [](C15_State) /\ [][C15_Step]_vars

C15_Witness ==
    /\ batch.status = "raised"
    /\ UnknownType(batch.stype)
    /\ Len(batch.targets) = 3
    /\ DOMAIN factory.instances = {"ebay", "EBAY"}

(***************************************************************************)
(* C16.  A batch scrape called with an empty target list ends by raising   *)
(* an error before any GET; it does not return a list of outcomes.         *)
(***************************************************************************)
C16_EmptyListFailsFast ==
    (batch.status # "none" /\ batch.targets = <<>>) =>
        /\ batch.status = "raised"
        /\ Count(log, "get") = 0

(***************************************************************************)
(* C17.  After rotate_proxy the current proxy is one of the static pool    *)
(* when that pool is not empty, it is the Tor proxy if and only if the     *)
(* static pool is empty, and it is None only when both pools are empty.    *)
(***************************************************************************)
C17_RotationPrefersStatic ==
    ret.op = "rotate_proxy" =>
        /\ pool.static # {} => pool.current \in pool.static
        /\ pool.current \in pool.tor <=> pool.static = {}
        /\ pool.current = None => pool.static = {} /\ pool.tor = {}

C17_Witness ==
    /\ ret.op = "rotate_proxy"
    /\ pool.static = {}
    /\ pool.current \in TorProxies
    /\ pool.last_rotation > StartTime

(***************************************************************************)
(* C18.  get_proxy and get_user_agent return the manager's current value;  *)
(* when more than rotation_interval seconds have passed since the last     *)
(* rotation they rotate first; when a value is current and no more than    *)
(* rotation_interval seconds have passed they change nothing, so that a    *)
(* read following a read returns the same value.                           *)
(***************************************************************************)
IntervalOver(last) == now - last > RotationInterval

C18_ProxyStep ==
    (ret'.op = "get_proxy" /\ now' = now) =>
        /\ ret'.val = pool'.current
        /\ IntervalOver(pool.last_rotation) =>
              /\ pool'.last_rotation = now
              /\ pool'.current \in ProxyPicks(pool)
        /\ (pool.current # None /\ ~IntervalOver(pool.last_rotation)) =>
              /\ pool' = pool
              /\ ret.op = "get_proxy" => ret'.val = ret.val

C18_AgentStep ==
    (ret'.op = "get_user_agent" /\ now' = now) =>
        /\ ret'.val = agents'.current
        /\ (IntervalOver(agents.last_rotation) /\ agents.agents # {}) =>
              /\ agents'.last_rotation = now
              /\ agents'.current \in agents.agents
        /\ (agents.current # None /\ ~IntervalOver(agents.last_rotation)) =>
              /\ agents' = agents
              /\ ret.op = "get_user_agent" => ret'.val = ret.val

C18_ReadRotatesWhenDue == [][C18_ProxyStep /\ C18_AgentStep]_vars

\* A read made exactly rotation_interval seconds after the last rotation.
C18_Witness ==
    /\ ret.op = "get_proxy"
    /\ pool.current # None
    /\ ret.val = pool.current
    /\ now - pool.last_rotation = RotationInterval

(***************************************************************************)
(* C19.  Whenever a thread is about to read the shared ProxyManager (the   *)
(* condition or the return of get_proxy, the return of get_proxy_type),    *)
(* its current_proxy, proxy_type and last_rotation are those the manager   *)
(* was constructed with or those written by one single rotation that ran   *)
(* to its end.                                                             *)
(***************************************************************************)
ReadLines == {"l66", "l70", "l121"}

\* The three fields are those of the constructor or of one whole rotation.
WholeRotation ==
    \/ pool.current = None /\ pool.ptype = None /\ pool.last_rotation = 0
    \/ \E r \in rotlog : /\ pool.current = r.current
                          /\ pool.ptype = r.ptype
                          /\ pool.last_rotation = r.at

C19_NoTornRotation ==
    \A w \in DOMAIN wk : wk[w].pc \in ReadLines => WholeRotation

(***************************************************************************)
(* C20.  When the threads have each just made a get_proxy call at the same *)
(* clock time and no rotate_proxy was called at that time, at most one of  *)
(* the calls rotated and all of them returned the same proxy.              *)
(***************************************************************************)
RotationsNow == {r \in rotlog : r.at = now}

C20_OneRotationWhenDue ==
    (/\ wk # <<>>
     /\ \A w \in DOMAIN wk :
           /\ wk[w].pc = "idle"
           /\ wk[w].ret.op = "get_proxy"
           /\ wk[w].ret.at = now
     /\ \A r \in RotationsNow : r.op = "get_proxy")
    => /\ Cardinality(RotationsNow) <= 1
       /\ \A v, w \in DOMAIN wk : wk[v].ret.val = wk[w].ret.val

(***************************************************************************)
(* C21.  A batch sleeps delay_between exactly once between the end of one  *)
(* item and the start of the next, whether the item succeeded or failed,   *)
(* and not after the last item; it never sleeps delay_between between the  *)
(* attempts of one item.                                                   *)
(***************************************************************************)
C21_DelayBetweenItems ==
    batch.status \in {"running", "returned"} =>
        /\ \A i \in 1..Len(log) :
              /\ (log[i] = "start" /\ i > 2) => log[i - 1] = "sleep_delay_between"
              /\ log[i] = "sleep_delay_between" =>
                    i < Len(log) /\ log[i + 1] = "start"
        /\ batch.status = "returned" =>
              Count(log, "sleep_delay_between") =
                 (IF batch.targets = <<>> THEN 0 ELSE Len(batch.targets) - 1)

(***************************************************************************)
(* C22.  Cancelling a batch between items.  scrape_auctions and            *)
(* scrape_by_urls are blocking calls that take no cancellation token, flag *)
(* or callback; the one way their caller stops them is the interpreter's   *)
(* KeyboardInterrupt, delivered in the calling thread.  It is a            *)
(* BaseException: the loop's "except Exception" does not catch it, it      *)
(* leaves the method, and the local list results goes with the frame.      *)
(***************************************************************************)
\* KeyboardInterrupt delivered between two items of a running batch: after
\* the item's entry has been appended (during time.sleep(delay_between) when
\* the item returned), before the next item is started.
BatchInterrupt ==
    /\ batch.status = "running"
    /\ pc \in {"returned", "raised"}
    /\ LET entry == IF pc = "returned" THEN outcome.val
                    ELSE FailureEntry(batch.op, call.target, outcome)
       IN batch' = [batch EXCEPT !.status = "raised",
                                 !.results = Append(batch.results, entry)]
    /\ log' = Append(log, "interrupt")
    /\ call' = NoCall
    /\ pc' = "idle"
    /\ attempt' = 0
    /\ depth' = 0
    /\ resp' = NoResp
    /\ outcome' = Raise("KeyboardInterrupt", <<>>)
    /\ UNCHANGED <<svc, factory, pm, uam, calls, requested>>
    /\ UNCHANGED poolVars

\* Batch scrapes that the caller may interrupt between items.
NextCancel ==
    \/ \E s \in 1..Len(svc), bop \in BatchOps, stype \in CallTypes,
          n \in 0..MaxRetries :
          \E targets \in BatchInputs(bop) : StartBatch(s, bop, targets, stype, n)
    \/ AdapterCall
    \/ HandleFailure
    \/ BatchCollect
    \/ BatchInterrupt

SpecCancel == InitOneService /\ [][NextCancel]_vars

\* C22: once the caller has cancelled a batch between items, no further
\* fetch attempt is made and the batch returns to its caller the outcomes
\* of the items completed before the cancellation.
C22_CancelReturnsCompleted ==
    (Count(log, "interrupt") > 0) =>
        /\ log[Len(log)] = "interrupt"
        /\ batch.status = "returned"
        /\ Len(batch.results) = batch.idx

(***************************************************************************)
(* C23.  For a page that carries the three required fields and lacks an     *)
(* optional one (brand, model, upc, asin, condition, damage notes, end     *)
(* time, seller, shipping, returns), the extraction raises no error and    *)
(* yields a record in which that field is unset.                           *)
(***************************************************************************)
OptionalFields == {"brand", "model", "upc", "asin", "condition", "damage",
                   "end_time", "seller", "shipping", "returns"}

\* The record key of an optional field.
KeyOf(name) == IF name = "damage" THEN "damage_notes" ELSE name

\* The three required fields can be extracted from r and are non-empty.
RequiredOnPage(r) ==
    /\ r.status = "ok"
    /\ LET soup == ParseHtml(r.text) IN
       \A x \in {ExtractLotNumber(soup), ExtractTitle(soup), ExtractCurrentBid(soup)} :
           x.k = "return" /\ Truthy(x.val)

C23_OptionalAbsentIsUnset ==
    (InCall /\ AdapterEnded /\ RequiredOnPage(resp) /\ ~IsBlockPage(resp)) =>
        LET d == ExtractData(ParseHtml(resp.text), RequestUrl(call)) IN
        /\ d.k = "return"
        /\ \A name \in OptionalFields :
              resp.text[name] = None => DictGet(d.val, KeyOf(name)) = None

(***************************************************************************)
(* BaseScraper._extract_brand / _extract_model: the chain of extraction    *)
(* methods.  A description is a sequence of words and white space; the     *)
(* regular expressions are applied as re.search applies them.              *)
(***************************************************************************)
WhiteSpace == {" ", "\n"}

NoMatch == [k |-> "nomatch"]

\* The first position from i on that holds no white space.
RECURSIVE SkipWs(_, _)
SkipWs(s, i) == IF i <= Len(s) /\ s[i] \in WhiteSpace THEN SkipWs(s, i + 1) ELSE i

\* The first position from i on that holds a newline, or the end.
RECURSIVE LineEnd(_, _)
LineEnd(s, i) == IF i <= Len(s) /\ s[i] # "\n" THEN LineEnd(s, i + 1) ELSE i

\* label\s*([^\n]+) matched at position i: \s* takes all the white space
\* (newlines included), the group the rest of the line it stops on; when
\* nothing but white space follows the label, \s* gives back up to the last
\* character that is no newline.
MatchAt(s, label, i) ==
    IF s[i] # label THEN NoMatch
    ELSE LET j == SkipWs(s, i + 1) IN
         IF j <= Len(s)
         THEN [k |-> "match", group |-> SubSeq(s, j, LineEnd(s, j) - 1)]
         ELSE LET back == {b \in (i + 1)..Len(s) : s[b] # "\n"} IN
              IF back = {} THEN NoMatch
              ELSE LET b == CHOOSE x \in back : \A y \in back : y <= x IN
                   [k |-> "match", group |-> SubSeq(s, b, LineEnd(s, b) - 1)]

\* re.search: the leftmost match.
Search(s, label) ==
    LET at == {i \in 1..Len(s) : MatchAt(s, label, i) # NoMatch} IN
    IF at = {} THEN NoMatch
    ELSE MatchAt(s, label, CHOOSE i \in at : \A j \in at : i <= j)

\* str.strip()
RECURSIVE Strip(_)
Strip(s) ==
    IF s = <<>> THEN s
    ELSE IF s[1] \in WhiteSpace THEN Strip(Tail(s))
    ELSE IF s[Len(s)] \in WhiteSpace THEN Strip(SubSeq(s, 1, Len(s) - 1))
    ELSE s

\* Method A of both chains: the labelled line of the description.
FromDescription(element, label) ==
    IF Truthy(element.description)
    THEN Search(element.description.chars, label)
    ELSE NoMatch

\* BaseScraper._extract_title: the stripped title, or "".
BaseExtractTitle(element) ==
    IF Truthy(element.title) THEN element.title ELSE Txt(<<>>)

\* The words \d+ matches.
DigitWords == {"012345"}

\* BaseScraper._extract_upc: UPC:\s*(\d+) on the description, or "".
BaseExtractUpc(element) ==
    LET m == FromDescription(element, "UPC:") IN
    IF m # NoMatch /\ m.group[1] \in DigitWords THEN Txt(<<m.group[1]>>)
    ELSE Txt(<<>>)

\* Method A returns the stripped group of its match.  Methods B and C (and
\* D for the model) are placeholders: the title and the UPC are extracted,
\* "if title: pass" and "if upc: pass" do nothing with them, and the
\* method ends with return "".
BaseExtractBrand(element) ==
    LET a     == FromDescription(element, "Brand:")
        title == BaseExtractTitle(element)
        upc   == BaseExtractUpc(element)
    IN  IF a # NoMatch THEN Txt(Strip(a.group)) ELSE Txt(<<>>)

BaseExtractModel(element) ==
    LET a     == FromDescription(element, "Model:")
        title == BaseExtractTitle(element)
        upc   == BaseExtractUpc(element)
    IN  IF a # NoMatch THEN Txt(Strip(a.group)) ELSE Txt(<<>>)

\* EbayScraper overrides both methods: the value of the attribute block
\* div.it-attr[data-name=Brand] (Model), or None.
EbayExtractBrand(soup) == ExtractAttr(soup, "brand")

EbayExtractModel(soup) == ExtractAttr(soup, "model")

\* A value as text: a str is one word, None and "" are the empty text.
AsText(v) ==
    CASE v.t = "text" -> v
      [] v.t = "str"  -> IF v.s = "" THEN Txt(<<>>) ELSE Txt(<<v.s>>)
      [] OTHER        -> Txt(<<>>)

(***************************************************************************)
(* C24.  The brand and the model of a record are what the chain yields:    *)
(* the description's labelled value whenever the description has one, the  *)
(* later methods being tried only after it.                                *)
(***************************************************************************)
C24_DescriptionWins ==
    (InCall /\ AdapterEnded /\ RequiredOnPage(resp) /\ ~IsBlockPage(resp)) =>
        LET soup == ParseHtml(resp.text) IN
        /\ FromDescription(soup, "Brand:") # NoMatch =>
              AsText(EbayExtractBrand(soup)) = BaseExtractBrand(soup)
        /\ FromDescription(soup, "Model:") # NoMatch =>
              AsText(EbayExtractModel(soup)) = BaseExtractModel(soup)

(***************************************************************************)
(* C25.  scrape_by_id(id) requests exactly the URL that                    *)
(* scrape_by_url(canonicalUrl(id)) requests, canonicalUrl(id) being        *)
(* base_url + "/itm/" + id, and does what that call does: every step of    *)
(* the adapter under one of the two calls is a step it can take under the  *)
(* other, with the same response, outcome and effect on both pools.        *)
(***************************************************************************)
\* The scrape_by_url call on the canonical URL of the id of call c.
ByUrl(c) == [c EXCEPT !.op = "scrape_by_url", !.target = CanonicalUrl(c.target)]

\* The scrape_by_id call on the id of the URL of call c.
ById(c) == [c EXCEPT !.op = "scrape_auction", !.target = UrlId(c.target)]

C25_State ==
    InCall =>
        \A i \in 1..Len(requested) :
            requested[i] = IF call.op = "scrape_auction"
                           THEN <<"https://www.ebay.com", "/itm/", call.target>>
                           ELSE call.target

C25_Step ==
    AdapterCall =>
        IF call.op = "scrape_auction" THEN AdapterStep(ByUrl(call))
        ELSE call.target = CanonicalUrl(UrlId(call.target)) => AdapterStep(ById(call))

C25_ByIdIsByUrl == []C25_State /\ [][C25_Step]_vars

C25_Witness ==
    /\ InCall /\ call.op = "scrape_auction"
    /\ pc = "except"
    /\ Len(requested) >= 1
    /\ requested[Len(requested)] = CanonicalUrl(call.target)

(***************************************************************************)
(* C26.  get_all_scrapers reports exactly the keys for which get_scraper   *)
(* has returned an adapter since the last clear_instances; after           *)
(* clear_instances the registry is empty and the next get_scraper that     *)
(* returns constructs a new adapter; a change of the mapping               *)
(* get_all_scrapers returned changes nothing in the registry.              *)
(***************************************************************************)
C26_State ==
    /\ DOMAIN GetAllScrapers(factory).map = factory.returned
    /\ \A t \in factory.returned : GetAllScrapers(factory).map[t] = factory.instances[t]

C26_Step ==
    /\ GetAllScrapersCall => DOMAIN ret'.val.map = factory.returned
    /\ ClearInstances => DOMAIN GetAllScrapers(factory').map = {}
    /\ \A t \in RegistryKeys :
          (factory.returned = {} /\ FactoryGetScraper(t)
              /\ GetScraper(factory, t).res.k = "return") =>
             /\ factory'.made = factory.made + 1
             /\ factory'.instances[t].oid > factory.made
    /\ ChangeMapping => factory' = factory

C26_RegistryListing == []C26_State /\ [][C26_Step]_vars

\* The caller has emptied the mapping it was handed while the registry
\* holds adapters registered after a clear_instances.
C26_Witness ==
    /\ ret.op = "get_all_scrapers"
    /\ DOMAIN ret.val.map = {}
    /\ factory.returned # {}
    /\ factory.made > Cardinality(factory.returned)

(***************************************************************************)
(* C27.  Whatever max_retries is, zero and negative values included, a     *)
(* scrape ends by returning a record or by raising the retries-exhausted   *)
(* error, never by returning None, and no entry of a batch's list is       *)
(* None.                                                                   *)
(***************************************************************************)
C27_NeverNone ==
    /\ (call.op # "none" /\ pc = "returned") => outcome.val # None
    /\ batch.status \in {"running", "returned"} =>
          \A i \in 1..Len(batch.results) : batch.results[i] # None

(***************************************************************************)
(* C28.  In a batch with max_retries >= 1 every item has an attempt budget *)
(* of its own: an item is attempted at least once and at most max_retries  *)
(* times whatever happened to the items before it, an item that ends in a  *)
(* failure entry has used its whole budget, and a batch of n items makes   *)
(* at most n * max_retries attempts.                                       *)
(***************************************************************************)
\* The position in log of the "start" of item k.
StartAt(k) ==
    CHOOSE i \in Positions(log, "start") :
        Cardinality({j \in Positions(log, "start") : j <= i}) = k

\* The last position in log of item k.
EndAt(k) ==
    IF k < Count(log, "start") THEN StartAt(k + 1) - 1 ELSE Len(log)

\* The attempts of item k: the GETs that follow its start or a retry's
\* rotations (the GETs after a detected block belong to the same attempt).
AttemptsOf(k) ==
    Cardinality({i \in StartAt(k)..EndAt(k) :
                    /\ log[i] = "get"
                    /\ log[i - 1] \in {"start", "rotate_user_agent"}})

\* Item k is over.
ItemOver(k) ==
    \/ k < Count(log, "start")
    \/ batch.status = "returned"
    \/ pc \in {"returned", "raised"}

C28_FreshBudgetPerItem ==
    (batch.status \in {"running", "returned"} /\ batch.max_retries >= 1) =>
        /\ \A k \in 1..Count(log, "start") :
              /\ AttemptsOf(k) <= batch.max_retries
              /\ ItemOver(k) => AttemptsOf(k) >= 1
              /\ (k <= Len(batch.results) /\ IsFailureEntry(batch.results[k])) =>
                    AttemptsOf(k) = batch.max_retries
        /\ Count(log, "start") <= Len(batch.targets)
        /\ Cardinality({i \in 2..Len(log) :
                           /\ log[i] = "get"
                           /\ log[i - 1] \in {"start", "rotate_user_agent"}})
              <= Len(batch.targets) * batch.max_retries

\* A batch of three items has returned, each item attempted MaxRetries
\* times.
C28_Witness ==
    /\ batch.status = "returned"
    /\ batch.max_retries = MaxRetries
    /\ Len(batch.targets) = 3
    /\ \A k \in 1..3 : AttemptsOf(k) = MaxRetries

(***************************************************************************)
(* C29.  rotate_proxy and get_proxy leave the UserAgentManager's           *)
(* current_user_agent and last_rotation as they were, and                  *)
(* rotate_user_agent and get_user_agent leave the ProxyManager's           *)
(* current_proxy, proxy_type and last_rotation as they were.               *)
(***************************************************************************)
C29_Step ==
    /\ (GetProxyCall \/ RotateProxyCall) =>
          /\ agents'.current = agents.current
          /\ agents'.last_rotation = agents.last_rotation
    /\ (GetUserAgentCall \/ RotateUserAgentCall) =>
          /\ pool'.current = pool.current
          /\ pool'.ptype = pool.ptype
          /\ pool'.last_rotation = pool.last_rotation

C29_PoolsIndependent == [][C29_Step]_vars

\* The proxy was rotated after the user agent in use was chosen.
C29_Witness ==
    /\ ret.op = "rotate_proxy"
    /\ agents.current # None
    /\ pool.current # None
    /\ pool.last_rotation > agents.last_rotation

(***************************************************************************)
(* C30.  Between the calls made on a ProxyManager one after the other,     *)
(* proxy_type is None exactly when current_proxy is None; when it is       *)
(* "static" the current proxy is one of static_proxies; when it is "tor"   *)
(* the current proxy is one of tor_proxies and static_proxies is empty.    *)
(***************************************************************************)
C30_TypeMatchesProxy ==
    /\ pool.ptype = None <=> pool.current = None
    /\ pool.ptype \in {None, Str("static"), Str("tor")}
    /\ pool.ptype = Str("static") => pool.current \in pool.static
    /\ pool.ptype = Str("tor") => pool.current \in pool.tor /\ pool.static = {}

\* A manager without static proxies has been read and is on the Tor proxy.
C30_Witness ==
    /\ ret.op = "get_proxy"
    /\ ret.val = pool.current
    /\ pool.ptype = Str("tor")
    /\ pool.current \in pool.tor

(***************************************************************************)
(* C31.  get_proxy of a ProxyManager built by its constructor never        *)
(* returns None, whatever the static proxies configured: the Tor list      *)
(* always holds an entry, and the value returned is a proxy of one of the  *)
(* two lists.                                                              *)
(***************************************************************************)
C31_GetProxyNeverNone ==
    /\ pool.tor # {}
    /\ ret.op = "get_proxy" =>
          /\ ret.val # None
          /\ ret.val \in pool.static \cup pool.tor

\* A manager without static proxies was read at least one interval after
\* its last rotation and returned the Tor proxy.
C31_Witness ==
    /\ ret.op = "get_proxy"
    /\ pool.static = {}
    /\ ret.val \in pool.tor
    /\ pool.last_rotation > StartTime

(***************************************************************************)
(* C32.  There is at most one adapter per adapter type whatever the letter *)
(* case of the key: keys that differ only in case hold the same adapter,   *)
(* and get_all_scrapers lists the type once.                               *)
(***************************************************************************)
C32_OneAdapterPerType ==
    \A t1, t2 \in DOMAIN GetAllScrapers(factory).map :
        Lower(t1) = Lower(t2) =>
            /\ factory.instances[t1] = factory.instances[t2]
            /\ t1 = t2

(***************************************************************************)
(* ScraperFactory.get_scraper called by threads.  The method takes no      *)
(* lock: each thread runs it statement by statement, its locals being      *)
(* scraper_class and instance.  The managers two threads may each          *)
(* construct at lines 31-34 are not told apart.                            *)
(***************************************************************************)
IdleCaller ==
    [pc |-> "idle", stype |-> "none", cls |-> None, inst |-> None, ops |-> 0,
     ret |-> NoRet]

InitCallers ==
    /\ svc = <<>>
    /\ factory = [instances |-> <<>>, pm |-> None, uam |-> None, made |-> 0, returned |-> {}]
    /\ pm = [i \in ManagerIds |-> NewProxyManager]
    /\ uam = [i \in ManagerIds |-> NewUserAgentManager]
    /\ NoScrape
    /\ now = StartTime
    /\ pool = NewClockedProxyManager(StaticProxies)
    /\ agents = NewClockedUserAgentManager(UserAgents)
    /\ ret = NoRet
    /\ wk = [w \in Workers |-> IdleCaller]
    /\ rotlog = {}

\* A thread calls get_scraper(stype).
CallerCall(w, stype) ==
    /\ wk[w].pc = "idle"
    /\ wk[w].ops < MaxOps
    /\ wk' = [wk EXCEPT ![w].pc = "l31", ![w].stype = stype, ![w].ops = @ + 1,
                         ![w].cls = None, ![w].inst = None]
    /\ UNCHANGED <<now, pool, agents, ret, rotlog>>
    /\ UNCHANGED scrapeVars

\* The thread back in its caller with result res.
CallerReturns(w, res) ==
    [wk EXCEPT ![w].pc = "idle", ![w].cls = None, ![w].inst = None,
               ![w].ret = [op |-> "get_scraper", stype |-> wk[w].stype, res |-> res]]

\* get_scraper, lines 31-47.
GetScraperLine(w) ==
    /\ \/ /\ wk[w].pc = "l31"
          /\ wk' = [wk EXCEPT ![w].pc = IF factory.pm = None THEN "l32" ELSE "l33"]
          /\ UNCHANGED factory
       \/ /\ wk[w].pc = "l32"
          /\ factory' = [factory EXCEPT !.pm = Num(FactoryManager)]
          /\ wk' = [wk EXCEPT ![w].pc = "l33"]
       \/ /\ wk[w].pc = "l33"
          /\ wk' = [wk EXCEPT ![w].pc = IF factory.uam = None THEN "l34" ELSE "l37"]
          /\ UNCHANGED factory
       \/ /\ wk[w].pc = "l34"
          /\ factory' = [factory EXCEPT !.uam = Num(FactoryManager)]
          /\ wk' = [wk EXCEPT ![w].pc = "l37"]
       \/ /\ wk[w].pc = "l37"
          /\ wk' = [wk EXCEPT ![w].pc =
                       IF wk[w].stype \in DOMAIN factory.instances THEN "l38" ELSE "l41"]
          /\ UNCHANGED factory
       \/ /\ wk[w].pc = "l38"
          /\ wk' = CallerReturns(w, Return(factory.instances[wk[w].stype]))
          /\ factory' = [factory EXCEPT !.returned = @ \cup {wk[w].stype}]
       \/ /\ wk[w].pc = "l41"
          /\ wk' = [wk EXCEPT ![w].cls = GetScraperClass(wk[w].stype), ![w].pc = "l42"]
          /\ UNCHANGED factory
       \/ /\ wk[w].pc = "l42"
          /\ wk' = [wk EXCEPT ![w].pc = IF wk[w].cls # None THEN "l43" ELSE "l47"]
          /\ UNCHANGED factory
       \/ /\ wk[w].pc = "l43"
          /\ wk' = [wk EXCEPT ![w].pc = "l44",
                              ![w].inst = [cls |-> wk[w].cls.s, oid |-> factory.made + 1,
                                           pm |-> factory.pm.n, uam |-> factory.uam.n]]
          /\ factory' = [factory EXCEPT !.made = @ + 1]
       \/ /\ wk[w].pc = "l44"
          /\ factory' = [factory EXCEPT
                            !.instances =
                               [t \in (DOMAIN @) \cup {wk[w].stype} |->
                                   IF t = wk[w].stype THEN wk[w].inst ELSE @[t]]]
          /\ wk' = [wk EXCEPT ![w].pc = "l45"]
       \/ /\ wk[w].pc = "l45"
          /\ wk' = CallerReturns(w, Return(wk[w].inst))
          /\ factory' = [factory EXCEPT !.returned = @ \cup {wk[w].stype}]
       \/ /\ wk[w].pc = "l47"
          /\ wk' = CallerReturns(w, Raise("ValueError", <<"Invalid scraper type">>))
          /\ UNCHANGED factory
    /\ UNCHANGED <<svc, pm, uam, call, pc, attempt, depth, resp, outcome, batch,
                   log, calls, requested>>
    /\ UNCHANGED <<now, pool, agents, ret, rotlog>>

NextCallers ==
    \/ \E w \in Workers, stype \in CallTypes : CallerCall(w, stype)
    \/ \E w \in Workers : GetScraperLine(w)

SpecCallers == InitCallers /\ [][NextCallers]_vars

(***************************************************************************)
(* C33.  When threads call get_scraper with a scraper_type that has no     *)
(* adapter yet, all of them receive the same adapter and one adapter is    *)
(* constructed for that type.                                              *)
(***************************************************************************)
C33_OneAdapterUnderRace ==
    /\ \A v, w \in Workers :
          (/\ wk[v].ret.op = "get_scraper" /\ wk[w].ret.op = "get_scraper"
           /\ wk[v].ret.stype = wk[w].ret.stype
           /\ wk[v].ret.res.k = "return" /\ wk[w].ret.res.k = "return") =>
             wk[v].ret.res.val = wk[w].ret.res.val
    /\ factory.made <= Cardinality({t \in CallTypes : GetScraperClass(t) # None})

(***************************************************************************)
(* C34.  Every call of rotate_proxy and of rotate_user_agent sets the      *)
(* last_rotation of its pool to the time of the call, also when the pool   *)
(* is empty, and no operation lowers a last_rotation.                      *)
(***************************************************************************)
C34_Step ==
    /\ RotateProxyCall => pool'.last_rotation = now
    /\ RotateUserAgentCall => agents'.last_rotation = now
    /\ pool'.last_rotation >= pool.last_rotation
    /\ agents'.last_rotation >= agents.last_rotation

C34_RotationStamps == [][C34_Step]_vars

(***************************************************************************)
(* C35.  A current bid of exactly 0 counts as a missing required field: a  *)
(* page whose extracted bid is 0 is never returned as a success, its       *)
(* adapter call ends in the validation failure, and the scrape retries it  *)
(* as it retries any failure.                                              *)
(***************************************************************************)
\* The bid extracted from r is the number 0.
ZeroBidPage(r) ==
    /\ r.status = "ok"
    /\ ExtractCurrentBid(ParseHtml(r.text)) = Return(Num(0))

ValidationFailure == Raise("ValueError", <<"Required fields missing from scraped data">>)

C35_ZeroBidIsValidationFailure ==
    (InCall /\ AdapterEnded /\ ZeroBidPage(resp) /\ ~IsBlockPage(resp)) =>
        /\ pc # "returned"
        /\ pc = "except" => outcome = ValidationFailure
        /\ pc = "raised" => Exhausted /\ outcome.context = ValidationFailure

(***************************************************************************)
(* C36.  scrape_auction(id) and scrape_by_url(CanonicalUrl(id)) follow the *)
(* same retry policy: from states that agree but for the call's operation  *)
(* and target, every step of one call (its entry, each fetch attempt, each *)
(* pass through the except clause with its sleep and its two rotations) is *)
(* a step of the other, writing the same log, leaving the same attempt     *)
(* counter and pools, and an outcome of the same kind: the same exception  *)
(* class chained to the same adapter failure, the messages differing only  *)
(* in the wording and the target they name.                                *)
(***************************************************************************)
\* The call on the same listing through the other entry point.
Twin(c) == IF c.op = "scrape_auction" THEN ByUrl(c) ELSE ById(c)

\* An outcome but for the text of its message.
OutcomeKind(o) == IF o.k = "raise" THEN [o EXCEPT !.msg = <<>>] ELSE o

C36_Entry ==
    LET g == GetScraper(factory, call'.stype) IN
    /\ Twin(Twin(call')) = call'
    /\ Twin(call').op \in SingleOps \ {call'.op}
    /\ Twin(call').target \in TargetsOf(Twin(call').op)
    /\ log' = <<"start">> /\ requested' = <<>> /\ attempt' = 0
    /\ factory' = g.f
    /\ pc' = IF g.res.k = "raise" THEN "raised"
             ELSE IF call'.max_retries <= 0 THEN "returned" ELSE "attempt"
    /\ outcome' = IF g.res.k = "raise" THEN g.res
                  ELSE IF call'.max_retries <= 0 THEN Return(None) ELSE NoOutcome

C36_Step ==
    /\ calls' = calls + 1 => C36_Entry
    /\ AdapterCall => AdapterStep(Twin(call))
    /\ HandleFailure =>
          /\ HandleEffects(Twin(call))
          /\ OutcomeKind(outcome') = OutcomeKind(HandleOutcome(Twin(call)))

====
